---- MODULE Spec2Model ----
(***************************************************************************)
(* Model of olwidget.admin.GeoModelAdmin                                   *)
(* (django-olwidget/olwidget/admin.py): get_changelist_map, changelist_view *)
(* and get_form.                                                           *)
(***************************************************************************)
EXTENDS Integers, Sequences, FiniteSets, TLC

(***************************************************************************)
(* Bounds                                                                  *)
(***************************************************************************)
\* longest queryset handed to get_changelist_map when it is called directly
MaxObjs == 2
\* longest queryset behind a change list served by changelist_view
MaxViewObjs == 1
\* number of get_form calls on one admin
MaxForms == 3
\* number of forms constructed / clean calls per form class
MaxUses == 2

(***************************************************************************)
(* Program constants                                                       *)
(***************************************************************************)
\* olwidget.utils.DEFAULT_PROJ, used as int(DEFAULT_PROJ)
DEFAULT_PROJ == 4326
\* some projection other than DEFAULT_PROJ that a geometry may be stored in
OtherProj == DEFAULT_PROJ + 1
\* django.contrib.admin.views.main.ERROR_FLAG
ERROR_FLAG == "e"
\* django.contrib.admin.helpers.ACTION_CHECKBOX_NAME
ACTION_CHECKBOX_NAME == "_selected_action"

(***************************************************************************)
(* Values: geometries, attributes, objects                                 *)
(***************************************************************************)
\* Python None
NoneVal == [kind |-> "None", srid |-> 0]
\* a geometry with no coordinates (len() == 0)
EmptyGeom(s) == [kind |-> "empty", srid |-> s]
\* a geometry with coordinates
Geom(s) == [kind |-> "geom", srid |-> s]

\* the names an admin may list in list_map: a model field and a model method
Fields == {"geom", "extent"}

\* what getattr(obj, field) can give: the value of a field, or a bound method
\* (callable) together with what calling it returns
AttrValues(f) ==
    IF f = "geom"
    THEN {[callable |-> FALSE, val |-> v] :
             v \in {NoneVal, EmptyGeom(OtherProj), Geom(OtherProj)}}
    ELSE {[callable |-> TRUE, val |-> v] :
             v \in {NoneVal, EmptyGeom(DEFAULT_PROJ), Geom(OtherProj)}}

\* a model instance: its attributes
Objects == {o \in [Fields -> UNION {AttrValues(f) : f \in Fields}] :
               \A f \in Fields : o[f] \in AttrValues(f)}

RECURSIVE SeqsUpTo(_, _)
SeqsUpTo(S, n) ==
    IF n = 0 THEN {<<>>}
    ELSE LET shorter == SeqsUpTo(S, n - 1)
         IN shorter \cup {Append(s, x) : s \in {t \in shorter : Len(t) = n - 1}, x \in S}

\* the values list_map takes: None, or a list of attribute names
ListMaps == {<<>>, <<"geom">>, <<"extent">>, <<"geom", "extent">>, <<"extent", "geom">>}

VARIABLES
    admin,          \* the GeoModelAdmin's class attributes
    db,             \* what cl.get_queryset yields: objects, by position (pk)
    pc,             \* position in the running call
    caller,         \* who called get_changelist_map: "view" or "direct"
    request,        \* the HttpRequest being served
    extra_context,  \* keys of changelist_view's extra_context argument
    clOutcome,      \* how ChangeList(...) ended for this request
    context,        \* the template context dict (the keys the view touches)
    response,       \* what changelist_view / get_changelist_map gave back
    i, j, k,        \* loop positions: object, list_map field, geoms entry
    geoms,          \* get_changelist_map's local list
    info,           \* get_changelist_map's local list
    map_,           \* value returned by get_changelist_map
    errRedirects,   \* history: lookup-error redirects issued in this chain
    mapCalls,       \* history: calls of get_changelist_map in this chain
    forms           \* the form classes and their use (get_form)

mapVars == <<i, j, k, geoms, info>>
viewVars == <<request, extra_context, clOutcome, context, response>>
vars == <<admin, db, pc, caller, request, extra_context, clOutcome, context,
          response, i, j, k, geoms, info, map_, errRedirects, mapCalls, forms>>

(***************************************************************************)
(* get_changelist_map                                                      *)
(***************************************************************************)
\* Python truth value of getattr(obj, field): a bound method is true, None is
\* false, a geometry is true iff it has length
Truthy(attr) == attr.callable \/ attr.val.kind = "geom"

\* transform that leaves the geometry in the projection it came in
TransformKeep(g, s) == g

\* geom.transform(srid): reprojects in place
Transform(g, s) == [g EXCEPT !.srid = s]

\* GeometryCollection(geoms, srid=...)
GeometryCollection(gs, s) == [members |-> gs, srid |-> s]

\* cl.url_for_result(obj) and force_text(obj), for the object at position n
url_for_result(n) == <<"url", n>>
force_text(n) == <<"text", n>>

\* "<a href='%s'>%s</a>" % (href, label)
Link(href, label) == <<"<a href='", href, "'>", label, "</a>">>

\* InfoMap(info, options=self.list_map_options)
InfoMap(inf) == [kind |-> "InfoMap", info |-> inf]
NoMap == [kind |-> "None", info |-> <<>>]
ExtraMap == [kind |-> "extra", info |-> <<>>]

\* line 94: if self.list_map: ... else return None
MapStart ==
    /\ pc = "map_start"
    /\ IF admin.list_map # <<>>
       THEN /\ pc' = "for_obj"
            /\ info' = <<>>
            /\ i' = 1
            /\ UNCHANGED map_
       ELSE /\ pc' = "map_return"
            /\ map_' = NoMap
            /\ UNCHANGED <<info, i>>
    /\ UNCHANGED <<admin, db, caller, viewVars, j, k, geoms, errRedirects, mapCalls, forms>>

\* lines 100-102 and 121: next object of the queryset, or the InfoMap
ForObj ==
    /\ pc = "for_obj"
    /\ IF i <= Len(db)
       THEN /\ geoms' = <<>>
            /\ j' = 1
            /\ pc' = "for_field"
            /\ UNCHANGED map_
       ELSE /\ map_' = InfoMap(info)
            /\ pc' = "map_return"
            /\ UNCHANGED <<geoms, j>>
    /\ UNCHANGED <<admin, db, caller, viewVars, i, k, info, errRedirects, mapCalls, forms>>

\* the loop body putting each geometry in front of those collected so far
CollectFieldPrepend(attr, gs) ==
    IF Truthy(attr) THEN <<attr.val>> \o gs ELSE gs

\* the body of the loop over list_map, lines 104-108
CollectField(attr, gs) ==
    IF Truthy(attr) THEN Append(gs, attr.val) ELSE gs

\* lines 103-108
ForField ==
    /\ pc = "for_field"
    /\ IF j <= Len(admin.list_map)
       THEN /\ geoms' = CollectField(db[i][admin.list_map[j]], geoms)
            /\ j' = j + 1
            /\ UNCHANGED <<pc, k>>
       ELSE /\ pc' = "transform"
            /\ k' = 1
            /\ UNCHANGED <<geoms, j>>
    /\ UNCHANGED <<admin, db, caller, viewVars, i, info, map_, errRedirects, mapCalls, forms>>

\* lines 109-110: geom.transform(int(DEFAULT_PROJ)); None has no transform
TransformStep ==
    /\ pc = "transform"
    /\ IF k <= Len(geoms)
       THEN IF geoms[k].kind = "None"
            THEN /\ pc' = "map_raise"
                 /\ UNCHANGED <<geoms, k>>
            ELSE /\ geoms' = [geoms EXCEPT ![k] = Transform(geoms[k], DEFAULT_PROJ)]
                 /\ k' = k + 1
                 /\ UNCHANGED pc
       ELSE /\ pc' = "append"
            /\ UNCHANGED <<geoms, k>>
    /\ UNCHANGED <<admin, db, caller, viewVars, i, j, info, map_, errRedirects, mapCalls, forms>>

\* the entry appended for the object at position n, lines 113-119
Entry(gs, n) ==
    [coll |-> GeometryCollection(gs, DEFAULT_PROJ),
     html |-> Link(url_for_result(n), force_text(n)),
     obj  |-> n]

\* the test of line 112
HasGeoms(gs) == gs # <<>>

\* lines 112-119
AppendStep ==
    /\ pc = "append"
    /\ info' = IF HasGeoms(geoms) THEN Append(info, Entry(geoms, i)) ELSE info
    /\ i' = i + 1
    /\ pc' = "for_obj"
    /\ UNCHANGED <<admin, db, caller, viewVars, j, k, geoms, map_, errRedirects, mapCalls, forms>>

\* get_changelist_map called on its own (cl, request=None), lines 90-99
MapCall ==
    /\ pc = "idle"
    /\ pc' = "map_start"
    /\ caller' = "direct"
    /\ mapCalls' = mapCalls + 1
    /\ UNCHANGED <<admin, db, viewVars, mapVars, map_, errRedirects, forms>>

\* the return of a direct call
MapReturn ==
    /\ pc = "map_return"
    /\ caller = "direct"
    /\ pc' = "done"
    /\ UNCHANGED <<admin, db, caller, viewVars, mapVars, map_, errRedirects, mapCalls, forms>>

\* the AttributeError of line 110 leaves a direct call
MapRaise ==
    /\ pc = "map_raise"
    /\ caller = "direct"
    /\ pc' = "raised"
    /\ UNCHANGED <<admin, db, caller, viewVars, mapVars, map_, errRedirects, mapCalls, forms>>


(***************************************************************************)
(* Properties of get_changelist_map                                        *)
(***************************************************************************)
\* a list_map attribute counts as set when the geometry it holds, or returns
\* when called, is a geometry with coordinates
IsSet(attr) == attr.val.kind = "geom"

\* the positions of the queryset whose object has a list_map field set
RECURSIVE ObjectsWithGeometry(_)
ObjectsWithGeometry(n) ==
    IF n = 0 THEN <<>>
    ELSE LET before == ObjectsWithGeometry(n - 1)
         IN IF \E m \in 1..Len(admin.list_map) : IsSet(db[n][admin.list_map[m]])
            THEN Append(before, n) ELSE before

\* C1: when list_map is configured, the info list handed to InfoMap has
\* exactly one entry per object with at least one list_map field set, in
\* queryset order, and none for an object whose list_map fields are all unset.
C1_InfoListsObjectsWithGeometry ==
    (pc \in {"map_return", "done"} /\ map_.kind = "InfoMap") =>
        [n \in 1..Len(map_.info) |-> map_.info[n].obj] = ObjectsWithGeometry(Len(db))

\* C2: every geometry collected for an object has had transform(DEFAULT_PROJ)
\* applied before the object's GeometryCollection is built, and the
\* collection is created with srid DEFAULT_PROJ.
C2_TransformedBeforeGrouping ==
    /\ pc = "append" =>
          /\ k = Len(geoms) + 1
          /\ \A n \in 1..Len(geoms) : geoms[n].srid = DEFAULT_PROJ
    /\ \A n \in 1..Len(info) :
          /\ info[n].coll.srid = DEFAULT_PROJ
          /\ \A m \in 1..Len(info[n].coll.members) :
                info[n].coll.members[m].srid = DEFAULT_PROJ

\* an entry holds a geometry that was stored in another projection
C2_Witness ==
    /\ pc = "map_return"
    /\ \E n \in 1..Len(info) :
          /\ "geom" \in {admin.list_map[m] : m \in 1..Len(admin.list_map)}
          /\ db[info[n].obj]["geom"] = [callable |-> FALSE, val |-> Geom(OtherProj)]

\* the list_map names whose attribute on obj is collected (line 105)
CollectedNames(obj) == SelectSeq(admin.list_map, LAMBDA f : obj[f].callable \/ IsSet(obj[f]))

\* C3: an entry's collection holds the object's list_map attributes in
\* list_map order, a callable replaced by what it returns, and is paired with
\* the link to cl.url_for_result(obj) labelled with the object's text.
C3_EntryIsCollectionAndLink ==
    \A n \in 1..Len(info) :
        LET e == info[n]
            names == CollectedNames(db[e.obj])
        IN /\ Len(e.coll.members) = Len(names)
           /\ \A m \in 1..Len(names) :
                 e.coll.members[m] = [db[e.obj][names[m]].val EXCEPT !.srid = DEFAULT_PROJ]
           /\ e.html = <<"<a href='", <<"url", e.obj>>, "'>", <<"text", e.obj>>, "</a>">>

\* an entry built from a field and from the result of a method, in an order
\* that tells them apart
C3_Witness ==
    /\ pc = "map_return"
    /\ \E n \in 1..Len(info) :
          /\ Len(info[n].coll.members) = 2
          /\ info[n].coll.members[1].kind # info[n].coll.members[2].kind

\* C9: a list_map callable returning None or an empty geometry is treated as
\* an unset field: get_changelist_map does not fail on it, and every member
\* of every collection handed to InfoMap is a set geometry.
C9_CallableWithoutGeometryIsUnset ==
    /\ pc # "map_raise"
    /\ \A n \in 1..Len(info) :
          \A m \in 1..Len(info[n].coll.members) : info[n].coll.members[m].kind = "geom"

(***************************************************************************)
(* changelist_view                                                         *)
(***************************************************************************)
Requests ==
    {[method |-> "GET", GET |-> g, POST |-> {}] : g \in SUBSET {ERROR_FLAG}}
    \cup {[method |-> "POST", GET |-> g, POST |-> p] :
             g \in SUBSET {ERROR_FLAG},
             p \in SUBSET {"index", "_save", ACTION_CHECKBOX_NAME}}

\* how ChangeList(request, ...) can end
ClOutcomes == {"ok", "IncorrectLookupParameters", "OtherError"}

\* media objects, as the lists of what they hold; + concatenates
AdminMedia == <<"admin">>
FormsetMedia == <<"formset">>
MapMedia == <<"olwidget">>
ExtraMedia == <<"extra">>

AbsentMap == [kind |-> "absent", info |-> <<>>]
NoContext == [map |-> AbsentMap, media |-> <<>>]
NoResponse == [kind |-> "none", query |-> {}, via |-> "none"]

\* line 173: request.POST.getlist(helpers.ACTION_CHECKBOX_NAME)
Selected(req) == ACTION_CHECKBOX_NAME \in req.POST

\* lines 176-177
IsActionNoConfirm(req, actions) ==
    actions /\ req.method = "POST" /\ "index" \in req.POST /\ "_save" \notin req.POST

\* lines 191-193
IsActionConfirm(req, actions) ==
    /\ actions /\ req.method = "POST" /\ ACTION_CHECKBOX_NAME \in req.POST
    /\ "index" \notin req.POST /\ "_save" \notin req.POST

\* lines 176-199: TRUE iff response_action's response is returned
ActionReturns(req, actions, actionResp) ==
    (IsActionNoConfirm(req, actions) \/ IsActionConfirm(req, actions))
        /\ Selected(req) /\ actionResp

\* lines 172-199: the value of action_failed at line 200
ActionFailed(req, actions, actionResp) ==
    \/ IsActionNoConfirm(req, actions) /\ (~Selected(req) \/ ~actionResp)
    \/ IsActionConfirm(req, actions) /\ Selected(req) /\ ~actionResp

\* lines 207-208
IsBulkEdit(req, adm, failed) ==
    req.method = "POST" /\ adm.list_editable /\ "_save" \in req.POST /\ ~failed

\* lines 204-245: the media of the formset branch
ViewMedia(adm) ==
    IF adm.list_editable THEN AdminMedia \o FormsetMedia ELSE AdminMedia

\* lines 257-275: dict(..., media=media, ...) then context.update(extra_context or {})
BuildContext(media, extra) ==
    [map   |-> IF "map" \in extra THEN ExtraMap ELSE AbsentMap,
     media |-> IF "media" \in extra THEN ExtraMedia ELSE media]

\* a lookup-error response that redirects without the error flag
LookupErrorResponseNoFlag(req) ==
    IF ERROR_FLAG \in req.GET
    THEN [kind |-> "error_page", query |-> {}, via |-> "lookup"]
    ELSE [kind |-> "redirect", query |-> {}, via |-> "lookup"]

\* a lookup-error response that redirects whatever the query string holds
LookupErrorResponseAlways(req) ==
    [kind |-> "redirect", query |-> {ERROR_FLAG}, via |-> "lookup"]

\* lines 162-166
LookupErrorResponse(req) ==
    IF ERROR_FLAG \in req.GET
    THEN [kind |-> "error_page", query |-> {}, via |-> "lookup"]
    ELSE [kind |-> "redirect", query |-> {ERROR_FLAG}, via |-> "lookup"]

\* lines 134-275: the response of an early return, or NoResponse when the
\* view goes on to line 278
EarlyResponse(req, adm, permitted, outcome, actionResp, formsetValid) ==
    IF ~permitted
    THEN [kind |-> "raise", query |-> {}, via |-> "permission"]
    ELSE IF outcome = "IncorrectLookupParameters"
    THEN LookupErrorResponse(req)
    ELSE IF outcome = "OtherError"
    THEN [kind |-> "raise", query |-> {}, via |-> "ChangeList"]
    ELSE IF ActionReturns(req, adm.actions, actionResp)
    THEN [kind |-> "action_response", query |-> {}, via |-> "action"]
    ELSE IF IsBulkEdit(req, adm, ActionFailed(req, adm.actions, actionResp)) /\ formsetValid
    THEN [kind |-> "redirect", query |-> req.GET, via |-> "bulk_save"]
    ELSE NoResponse

\* lines 125-278: one request served up to its early return or to the call
\* of get_changelist_map
Serve(req, chainErr) ==
    \E extra \in SUBSET {"map", "media"}, permitted \in BOOLEAN,
       outcome \in ClOutcomes, actionResp \in BOOLEAN, formsetValid \in BOOLEAN :
       LET early == EarlyResponse(req, admin, permitted, outcome, actionResp, formsetValid)
       IN /\ request' = req
          /\ extra_context' = extra
          /\ clOutcome' = IF permitted THEN outcome ELSE "none"
          /\ map_' = NoMap
          /\ IF early # NoResponse
             THEN /\ response' = early
                  /\ context' = NoContext
                  /\ pc' = "done"
                  /\ mapCalls' = 0
                  /\ errRedirects' =
                        IF early.kind = "redirect" /\ early.via = "lookup"
                        THEN chainErr + 1 ELSE chainErr
                  /\ UNCHANGED caller
             ELSE /\ response' = NoResponse
                  /\ context' = BuildContext(ViewMedia(admin), extra)
                  /\ pc' = "map_start"
                  /\ caller' = "view"
                  /\ mapCalls' = 1
                  /\ errRedirects' = chainErr
          /\ UNCHANGED <<admin, db, mapVars, forms>>

\* a request arrives
changelist_view ==
    /\ pc = "idle"
    /\ \E req \in Requests : Serve(req, 0)

\* the browser follows an HttpResponseRedirect with a GET
FollowRedirect ==
    /\ pc = "done"
    /\ response.kind = "redirect"
    /\ Serve([method |-> "GET", GET |-> response.query, POST |-> {}], errRedirects)

\* the truth value of get_changelist_map's result, line 279
MapTruthy(m) == m.kind # "None"

\* attaching the map without its media
AttachMapNoMedia(ctx, m) ==
    IF MapTruthy(m) THEN [ctx EXCEPT !.map = m] ELSE ctx

\* attaching the map unless extra_context brought one
AttachMapKeepExtra(ctx, m) ==
    IF MapTruthy(m)
    THEN [ctx EXCEPT !.media = ctx.media \o MapMedia,
                     !.map = IF ctx.map.kind = "extra" THEN ctx.map ELSE m]
    ELSE ctx

\* lines 279-281
AttachMap(ctx, m) ==
    IF MapTruthy(m)
    THEN [ctx EXCEPT !.media = ctx.media \o MapMedia, !.map = m]
    ELSE ctx

\* lines 279-290: get_changelist_map has returned; render the template
ViewTail ==
    /\ pc = "map_return"
    /\ caller = "view"
    /\ context' = AttachMap(context, map_)
    /\ response' = [kind |-> "template", query |-> {}, via |-> "render"]
    /\ pc' = "done"
    /\ UNCHANGED <<admin, db, caller, request, extra_context, clOutcome, mapVars,
                   map_, errRedirects, mapCalls, forms>>

\* the AttributeError of line 110 leaves changelist_view
ViewRaise ==
    /\ pc = "map_raise"
    /\ caller = "view"
    /\ response' = [kind |-> "raise", query |-> {}, via |-> "map_error"]
    /\ pc' = "done"
    /\ UNCHANGED <<admin, db, caller, request, extra_context, clOutcome, context,
                   mapVars, map_, errRedirects, mapCalls, forms>>

(***************************************************************************)
(* Properties of changelist_view                                           *)
(***************************************************************************)
\* ChangeList(...) raised while this request was served
ClRaised == clOutcome \in {"IncorrectLookupParameters", "OtherError"}

\* C4 as stated: any exception raised by the construction of the ChangeList
\* ends in a redirect to request.path with the error flag set, and does not
\* propagate.
C4_AnyExceptionRedirects ==
    (pc = "done" /\ ClRaised) =>
        (response.kind = "redirect" /\ response.query = {ERROR_FLAG})

\* C4, amended: an IncorrectLookupParameters raised by the construction of
\* the ChangeList does not propagate, and when the error flag is not yet in
\* the query string the view returns a redirect to request.path with the
\* error flag set.
C4_LookupErrorRedirects ==
    (pc = "done" /\ clOutcome = "IncorrectLookupParameters") =>
        /\ response.kind # "raise"
        /\ ERROR_FLAG \notin request.GET =>
              (response.kind = "redirect" /\ response.query = {ERROR_FLAG})

\* a lookup error on a request without the flag has been answered
C4_Witness ==
    /\ pc = "done"
    /\ clOutcome = "IncorrectLookupParameters"
    /\ ERROR_FLAG \notin request.GET
    /\ response.kind = "redirect"

\* the media built at lines 241-245
AdminFormsetMedia == IF admin.list_editable THEN <<"admin", "formset">> ELSE <<"admin">>

Rendered == pc = "done" /\ response.kind = "template"

\* C5 as stated: when the template is rendered and list_map is configured,
\* context['map'] is the map and context['media'] is the admin/formset media
\* with the map's media appended; when it is not configured the result is
\* None, the view adds no 'map' and leaves 'media' as it was.
C5_MapAndMediaInContext ==
    Rendered =>
        IF admin.list_map # <<>>
        THEN /\ map_.kind = "InfoMap"
             /\ context.map = map_
             /\ context.media = AdminFormsetMedia \o <<"olwidget">>
        ELSE /\ map_.kind = "None"
             /\ context.map.kind \in {"absent", "extra"}
             /\ context.media = IF "media" \in extra_context
                                THEN <<"extra">> ELSE AdminFormsetMedia

\* C5, amended: as stated, except that the media the map's media is appended
\* to is the context's 'media' after extra_context was merged: the
\* admin/formset media, or the 'media' extra_context supplies.
C5_MapAndMergedMediaInContext ==
    Rendered =>
        LET merged == IF "media" \in extra_context THEN <<"extra">> ELSE AdminFormsetMedia
        IN IF admin.list_map # <<>>
           THEN /\ map_.kind = "InfoMap"
                /\ context.map = map_
                /\ context.media = merged \o <<"olwidget">>
           ELSE /\ map_.kind = "None"
                /\ context.map.kind \in {"absent", "extra"}
                /\ context.media = merged

\* a change list with a map is rendered with a formset's media
C5_Witness ==
    /\ Rendered
    /\ admin.list_map # <<>>
    /\ admin.list_editable
    /\ "media" \in extra_context
    /\ Len(map_.info) > 0

\* C7: a lookup error without the error flag in the query string is answered
\* by the redirect to request.path?e=1, one with the flag already there by
\* the admin/invalid_setup.html page; a chain of followed redirects holds at
\* most one lookup-error redirect.
C7_RedirectedAtMostOnce ==
    /\ (pc = "done" /\ clOutcome = "IncorrectLookupParameters") =>
          IF ERROR_FLAG \in request.GET
          THEN response = [kind |-> "error_page", query |-> {}, via |-> "lookup"]
          ELSE response = [kind |-> "redirect", query |-> {ERROR_FLAG}, via |-> "lookup"]
    /\ errRedirects <= 1

\* the redirect was followed and the lookup failed again
C7_Witness ==
    /\ pc = "done"
    /\ errRedirects = 1
    /\ clOutcome = "IncorrectLookupParameters"
    /\ response.kind = "error_page"

\* get_changelist_map is running or has returned
InMap == pc \in {"map_start", "for_obj", "for_field", "transform", "append",
                 "map_return", "map_raise"}

\* C10: the map is computed and attached after extra_context was merged and
\* only on the rendering path: a 'map' from extra_context is replaced by the
\* computed map when list_map is configured and kept when it is not, and no
\* early return calls get_changelist_map.
C10_MapAfterExtraContextOnRenderOnly ==
    /\ (InMap /\ caller = "view") =>
          /\ context.map.kind = IF "map" \in extra_context THEN "extra" ELSE "absent"
          /\ "media" \in extra_context => context.media = <<"extra">>
    /\ Rendered =>
          /\ admin.list_map # <<>> => context.map = map_ /\ map_.kind = "InfoMap"
          /\ (admin.list_map = <<>> /\ "map" \in extra_context) => context.map.kind = "extra"
    /\ (pc = "done" /\ response.via \in {"permission", "lookup", "ChangeList",
                                          "action", "bulk_save"}) => mapCalls = 0
    /\ (pc = "done" /\ response.via \in {"render", "map_error"}) => mapCalls = 1

\* extra_context brought a 'map' and list_map is configured
C10_Witness ==
    /\ Rendered
    /\ admin.list_map # <<>>
    /\ "map" \in extra_context
    /\ context.map.kind = "InfoMap"

(***************************************************************************)
(* get_form                                                                *)
(*                                                                         *)
(* A method is modelled by the calls it makes, in order.  forms.base is    *)
(* the admin's own form class (self.form); forms.classes are the classes   *)
(* the parent get_form has produced, each a subclass of forms.base.        *)
(***************************************************************************)
\* ModelForm.__init__ and ModelForm.clean as django defines them
BaseInit == <<"orig_init">>
BaseClean == <<"orig_clean">>

\* a method slot a class does not define itself
Inherited == <<>>

\* a new_init that fixes the initial data before the original __init__ ran
new_init_fix_first(orig_init) == <<"fix_initial_data">> \o orig_init

\* lines 68-70: new_init calls orig_init, then fix_initial_data
new_init(orig_init) == orig_init \o <<"fix_initial_data">>

\* lines 74-77: new_clean calls orig_clean, then fix_cleaned_data, and
\* returns self.cleaned_data
new_clean(orig_clean) == orig_clean \o <<"fix_cleaned_data">>

\* attribute lookup on a class: its own slot, else the base class's
Lookup(own, inherited) == IF own = Inherited THEN inherited ELSE own

\* line 64: super().get_form() builds a new subclass of self.form
NewClass ==
    [init |-> Inherited, clean |-> Inherited, keymap |-> "unset",
     stage |-> "created", made |-> 0, cleaned |-> 0,
     lastInit |-> <<>>, lastClean |-> <<>>, lastRet |-> "none"]

\* line 64
GetFormSuper ==
    /\ pc = "idle"
    /\ Len(forms.classes) < MaxForms
    /\ forms' = [forms EXCEPT !.classes = Append(@, NewClass)]
    /\ UNCHANGED <<admin, db, pc, caller, viewVars, mapVars, map_, errRedirects, mapCalls>>

\* lines 67-81: the class with __init__ and clean overridden
PatchClass(cls, base) ==
    [cls EXCEPT !.init = new_init(Lookup(cls.init, base.init)),
                !.clean = new_clean(Lookup(cls.clean, base.clean)),
                !.stage = "patched"]

\* the overrides assigned to the admin's own form class, which every class
\* the parent returns inherits from
PatchFormsBase(fs, c) ==
    [fs EXCEPT !.base.init = new_init(@),
               !.base.clean = new_clean(@),
               !.classes[c].stage = "patched"]

\* lines 80-81 assign to ModelForm, the class the parent returned, and to
\* nothing else
PatchForms(fs, c) == [fs EXCEPT !.classes[c] = PatchClass(@, fs.base)]

\* lines 67-81, for the get_form call working on class c
GetFormPatch(c) ==
    /\ forms.classes[c].stage = "created"
    /\ forms' = PatchForms(forms, c)
    /\ UNCHANGED <<admin, db, pc, caller, viewVars, mapVars, map_, errRedirects, mapCalls>>

\* lines 84-87: ModelForm.initial_data_keymap = apply_maps_to_modelform_fields(...)
SetKeymap(cls) == [cls EXCEPT !.keymap = "keymap", !.stage = "keymapped"]

\* lines 84-87
GetFormKeymap(c) ==
    /\ forms.classes[c].stage = "patched"
    /\ forms' = [forms EXCEPT !.classes[c] = SetKeymap(@)]
    /\ UNCHANGED <<admin, db, pc, caller, viewVars, mapVars, map_, errRedirects, mapCalls>>

\* line 88: return ModelForm
GetFormReturn(c) ==
    /\ forms.classes[c].stage = "keymapped"
    /\ forms' = [forms EXCEPT !.classes[c].stage = "returned"]
    /\ UNCHANGED <<admin, db, pc, caller, viewVars, mapVars, map_, errRedirects, mapCalls>>

\* the calls a method makes on an instance of cls, each with the
\* initial_data_keymap the instance sees (self.initial_data_keymap)
Run(method, cls) ==
    [n \in 1..Len(method) |-> [call |-> method[n], keymap |-> cls.keymap]]

\* a caller of get_form builds a form: ModelForm(...) runs __init__
Construct(c) ==
    /\ forms.classes[c].stage = "returned"
    /\ forms.classes[c].made < MaxUses
    /\ forms' = [forms EXCEPT
                    !.classes[c].made = @ + 1,
                    !.classes[c].lastInit =
                        Run(Lookup(forms.classes[c].init, forms.base.init), forms.classes[c])]
    /\ UNCHANGED <<admin, db, pc, caller, viewVars, mapVars, map_, errRedirects, mapCalls>>

\* form.clean() on a built form
Clean(c) ==
    /\ forms.classes[c].stage = "returned"
    /\ forms.classes[c].made > 0
    /\ forms.classes[c].cleaned < MaxUses
    /\ forms' = [forms EXCEPT
                    !.classes[c].cleaned = @ + 1,
                    !.classes[c].lastClean =
                        Run(Lookup(forms.classes[c].clean, forms.base.clean), forms.classes[c]),
                    !.classes[c].lastRet = "cleaned_data"]
    /\ UNCHANGED <<admin, db, pc, caller, viewVars, mapVars, map_, errRedirects, mapCalls>>

(***************************************************************************)
(* Properties of get_form                                                  *)
(***************************************************************************)
\* the positions in a run of the calls named name
Calls(run, name) == {n \in 1..Len(run) : run[n].call = name}

\* C6: a class get_form has returned carries initial_data_keymap; building a
\* form runs the original __init__ to completion and then fix_initial_data
\* with that keymap; clean runs the original clean, then fix_cleaned_data
\* with that keymap, and returns cleaned_data.
C6_KeymapSetAndOriginalRunsFirst ==
    \A c \in 1..Len(forms.classes) :
        LET cls == forms.classes[c]
        IN /\ cls.stage = "returned" => cls.keymap = "keymap"
           /\ cls.made > 0 =>
                 /\ Calls(cls.lastInit, "orig_init") # {}
                 /\ Calls(cls.lastInit, "fix_initial_data") # {}
                 /\ \A a \in Calls(cls.lastInit, "orig_init"),
                       b \in Calls(cls.lastInit, "fix_initial_data") :
                       a < b /\ cls.lastInit[b].keymap = "keymap"
           /\ cls.cleaned > 0 =>
                 /\ Calls(cls.lastClean, "orig_clean") # {}
                 /\ Calls(cls.lastClean, "fix_cleaned_data") # {}
                 /\ \A a \in Calls(cls.lastClean, "orig_clean"),
                       b \in Calls(cls.lastClean, "fix_cleaned_data") :
                       a < b /\ cls.lastClean[b].keymap = "keymap"
                 /\ cls.lastRet = "cleaned_data"

\* a form was built from a returned class and cleaned
C6_Witness ==
    \E c \in 1..Len(forms.classes) :
        forms.classes[c].made > 0 /\ forms.classes[c].cleaned > 0

\* C8: however many times get_form was called, building one form runs
\* fix_initial_data exactly once and one clean runs fix_cleaned_data exactly
\* once, and the admin's own form class keeps its original methods.
C8_WrappersNeverStack ==
    /\ forms.base = [init |-> <<"orig_init">>, clean |-> <<"orig_clean">>]
    /\ \A c \in 1..Len(forms.classes) :
          LET cls == forms.classes[c]
          IN /\ cls.made > 0 => Cardinality(Calls(cls.lastInit, "fix_initial_data")) = 1
             /\ cls.cleaned > 0 => Cardinality(Calls(cls.lastClean, "fix_cleaned_data")) = 1

\* forms were built and cleaned from the class of a second get_form call
\* while a third call is under way
C8_Witness ==
    /\ Len(forms.classes) >= 3
    /\ forms.classes[2].made > 0
    /\ forms.classes[2].cleaned > 0
    /\ forms.classes[1].stage = "returned"
    /\ forms.classes[3].stage = "patched"

(***************************************************************************)
(* Specifications                                                          *)
(***************************************************************************)
Admins == [list_map : ListMaps, list_editable : BOOLEAN, actions : BOOLEAN]

NoForms == [base |-> [init |-> BaseInit, clean |-> BaseClean], classes |-> <<>>]

InitCommon ==
    /\ pc = "idle"
    /\ caller = "none"
    /\ request = [method |-> "GET", GET |-> {}, POST |-> {}]
    /\ extra_context = {}
    /\ clOutcome = "none"
    /\ context = NoContext
    /\ response = NoResponse
    /\ i = 0 /\ j = 0 /\ k = 0
    /\ geoms = <<>>
    /\ info = <<>>
    /\ map_ = NoMap
    /\ errRedirects = 0
    /\ mapCalls = 0
    /\ forms = NoForms

\* a change list served by changelist_view
Init ==
    /\ admin \in Admins
    /\ db \in SeqsUpTo(Objects, MaxViewObjs)
    /\ InitCommon

MapSteps == MapStart \/ ForObj \/ ForField \/ TransformStep \/ AppendStep

Next ==
    \/ changelist_view
    \/ FollowRedirect
    \/ MapSteps
    \/ ViewTail
    \/ ViewRaise

Spec == Init /\ [][Next]_vars

\* get_changelist_map called on its own
InitMap ==
    /\ admin \in {a \in Admins : ~a.list_editable /\ ~a.actions}
    /\ db \in SeqsUpTo(Objects, MaxObjs)
    /\ InitCommon

NextMap ==
    \/ MapCall
    \/ MapSteps
    \/ MapReturn
    \/ MapRaise

SpecMap == InitMap /\ [][NextMap]_vars

\* get_form, and the forms built from the classes it returns
InitForm ==
    /\ admin \in {a \in Admins : a.list_map = <<>> /\ ~a.list_editable /\ ~a.actions}
    /\ db = <<>>
    /\ InitCommon

NextForm ==
    \/ GetFormSuper
    \/ \E c \in 1..Len(forms.classes) : GetFormPatch(c)
    \/ \E c \in 1..Len(forms.classes) : GetFormKeymap(c)
    \/ \E c \in 1..Len(forms.classes) : GetFormReturn(c)
    \/ \E c \in 1..Len(forms.classes) : Construct(c)
    \/ \E c \in 1..Len(forms.classes) : Clean(c)

SpecForm == InitForm /\ [][NextForm]_vars

====
